---- MODULE Spec2Model ----
(***************************************************************************)
(* Model of cmod_functions/plasma_parameters.py.                           *)
(*                                                                         *)
(* The module holds four signal accessors, which talk to a remote MDSplus  *)
(* server through one connection per call, and three numeric functions.    *)
(* A behaviour of the model is one caller exercising one family of         *)
(* functions: average_plasma_parameter (variable avg), the two Greenwald   *)
(* formulas (variable gw), or a bounded series of accessor calls           *)
(* (variables call, prev, nconn, ncalls over a server content store).      *)
(*                                                                         *)
(* Numbers.  Array samples are integers.  Results of divisions are exact   *)
(* rationals <<n, d>> in lowest terms with d > 0; the float NaN is the     *)
(* pair <<0, 0>>.  An optional Python value is a sequence: None is <<>>    *)
(* and a value x is <<x>>.                                                 *)
(***************************************************************************)
EXTENDS Integers, Sequences, FiniteSets, TLC

VARIABLES avg, gw, store, call, prev, nconn, ncalls

vars == <<avg, gw, store, call, prev, nconn, ncalls>>

(***************************************************************************)
(* Bounds of the model.                                                    *)
(***************************************************************************)
\* longest array handed to average_plasma_parameter / stored in a signal
MaxLen == 3
\* largest time stamp and largest window bound
MaxTime == 2
\* largest numerator of a scalar handed to the Greenwald formulas
MaxNum == 3
\* largest denominator of a scalar handed to the Greenwald formulas
MaxDen == 2
\* accessor calls made in one behaviour
MaxCalls == 2

(***************************************************************************)
(* Python values.                                                          *)
(***************************************************************************)
None == <<>>
Some(x) == <<x>>
NoException == ""

\* Names bound in the module's global namespace: the one import and the
\* seven function definitions.  There is no "import numpy as np".
ModuleGlobals ==
  { "mds",
    "get_line_integrated_density", "get_line_averaged_density",
    "get_plasma_current", "get_toroidal_magnetic_field",
    "average_plasma_parameter", "greenwald_density_limit",
    "greenwald_fraction" }

\* A global name evaluates only if it is bound; otherwise Python raises
\* NameError at the moment the name is evaluated.
NameBound(name) == name \in ModuleGlobals

(***************************************************************************)
(* Exact rational arithmetic standing for float arithmetic.                *)
(***************************************************************************)
Abs(x) == IF x < 0 THEN -x ELSE x

RECURSIVE GCD(_, _)
GCD(a, b) == IF b = 0 THEN a ELSE GCD(b, a % b)

NaN == <<0, 0>>

\* n / d in lowest terms with a positive denominator (d # 0)
Norm(n, d) ==
  LET g == GCD(Abs(n), Abs(d))
      s == IF d < 0 THEN -1 ELSE 1
  IN  <<(s * n) \div g, (s * d) \div g>>

RatMul(a, b) == Norm(a[1] * b[1], a[2] * b[2])
RatDiv(a, b) == Norm(a[1] * b[2], a[2] * b[1])
RatLess(a, b) == a[1] * b[2] < b[1] * a[2]

RECURSIVE SeqSum(_)
SeqSum(s) == IF s = <<>> THEN 0 ELSE Head(s) + SeqSum(Tail(s))

RECURSIVE SeqMin(_)
SeqMin(s) ==
  IF Len(s) = 1 THEN s[1]
  ELSE LET m == SeqMin(Tail(s)) IN IF s[1] < m THEN s[1] ELSE m

RECURSIVE SeqMax(_)
SeqMax(s) ==
  IF Len(s) = 1 THEN s[1]
  ELSE LET m == SeqMax(Tail(s)) IN IF s[1] > m THEN s[1] ELSE m

\* numpy: a[mask], the elements of a at the positions where mask is True
RECURSIVE BoolIndex(_, _)
BoolIndex(a, mask) ==
  IF a = <<>> THEN <<>>
  ELSE (IF Head(mask) THEN <<Head(a)>> ELSE <<>>)
         \o BoolIndex(Tail(a), Tail(mask))

\* numpy: a.mean(); the mean of an empty array is nan (with a RuntimeWarning)
ArrayMean(a) == IF a = <<>> THEN NaN ELSE Norm(SeqSum(a), Len(a))

(***************************************************************************)
(* average_plasma_parameter                                                *)
(***************************************************************************)
TimeVals == 0 .. MaxTime
DataVals == {-1, 2}
Bounds == {None} \cup {Some(t) : t \in TimeVals}

AvgIdle ==
  [ pc |-> "idle", variable_data |-> <<>>, variable_time |-> <<>>,
    args |-> [time_start |-> None, time_end |-> None],
    time_start |-> None, time_end |-> None,
    time_interval |-> <<>>, variable_range |-> <<>>,
    ret |-> None, exc |-> NoException ]

\* the call average_plasma_parameter(d, t, s, e): parameters bound, body not
\* yet entered
AvgCall(d, t, s, e) ==
  [ AvgIdle EXCEPT !.pc = "line124", !.variable_data = d, !.variable_time = t,
                   !.args = [time_start |-> s, time_end |-> e],
                   !.time_start = s, !.time_end = e ]

\* line 124: (time_start is None) & (time_end is None)
BothOmittedOr(s, e) == s = None \/ e = None
BothOmitted(s, e) == s = None /\ e = None

\* line 127, one element: (t < time_end) & (t > time_start)
InWindowClosedEnd(t, s, e) == t <= e /\ t > s
InWindow(t, s, e) == t < e /\ t > s

\* line 127 on the whole array, both bounds being numbers
WindowMask(time, s, e) == [i \in 1 .. Len(time) |-> InWindow(time[i], s, e)]

\* line 124: the test of the defaulting branch
AvgTestDefaults ==
  /\ avg.pc = "line124"
  /\ avg' = [avg EXCEPT !.pc = IF BothOmitted(avg.time_start, avg.time_end)
                                THEN "line125" ELSE "line127"]
  /\ UNCHANGED <<gw, store, call, prev, nconn, ncalls>>

\* line 125: time_start, time_end = np.amin(variable_time), np.amax(variable_time)
\* The right-hand side first evaluates the global name np.
AvgDefaultWindow ==
  /\ avg.pc = "line125"
  /\ avg' =
       IF ~NameBound("np")
       THEN [avg EXCEPT !.pc = "raised", !.exc = "NameError"]
       ELSE IF avg.variable_time = <<>>
       THEN [avg EXCEPT !.pc = "raised", !.exc = "ValueError"]
       ELSE [avg EXCEPT !.pc = "line127",
                        !.time_start = Some(SeqMin(avg.variable_time)),
                        !.time_end = Some(SeqMax(avg.variable_time))]
  /\ UNCHANGED <<gw, store, call, prev, nconn, ncalls>>

\* line 127: time_interval = (variable_time < time_end) & (variable_time > time_start)
\* Ordering an integer array against None raises TypeError; on an empty array
\* no element is compared, and the numpy build decides between the TypeError
\* and an empty mask.
AvgWindow ==
  /\ avg.pc = "line127"
  /\ IF avg.time_start = None \/ avg.time_end = None
     THEN \/ avg' = [avg EXCEPT !.pc = "raised", !.exc = "TypeError"]
          \/ /\ avg.variable_time = <<>>
             /\ avg' = [avg EXCEPT !.pc = "line128", !.time_interval = <<>>]
     ELSE avg' = [avg EXCEPT !.pc = "line128",
                             !.time_interval =
                                WindowMask(avg.variable_time,
                                           avg.time_start[1], avg.time_end[1])]
  /\ UNCHANGED <<gw, store, call, prev, nconn, ncalls>>

\* line 128: variable_range = variable_data[time_interval]
AvgSelect ==
  /\ avg.pc = "line128"
  /\ avg' = [avg EXCEPT !.pc = "line129",
                        !.variable_range =
                           BoolIndex(avg.variable_data, avg.time_interval)]
  /\ UNCHANGED <<gw, store, call, prev, nconn, ncalls>>

\* lines 129-131: variable_mean = variable_range.mean(); return variable_mean
AvgMean ==
  /\ avg.pc = "line129"
  /\ avg' = [avg EXCEPT !.pc = "return",
                        !.ret = Some(ArrayMean(avg.variable_range))]
  /\ UNCHANGED <<gw, store, call, prev, nconn, ncalls>>

(***************************************************************************)
(* greenwald_density_limit and greenwald_fraction                          *)
(***************************************************************************)
\* scalars handed to the formulas (Python floats)
Scalars == { Norm(n, d) : n \in -MaxNum .. MaxNum, d \in 1 .. MaxDen }

\* line 134: minor_radius=0.22
DefaultMinorRadius == <<11, 50>>

\* np.pi, as a rational close to it
Pi == <<355, 113>>

GwIdle ==
  [ pc |-> "idle", fn |-> "", a |-> NaN, b |-> None, ret |-> None,
    exc |-> NoException ]

\* a call of fn with positional arguments a and b; b = None stands for an
\* omitted second argument
GwCall(fn, a, b) == [ GwIdle EXCEPT !.pc = "call", !.fn = fn, !.a = a, !.b = b ]

\* line 134: the parameter minor_radius takes its default when omitted
BindMinorRadius(b) == IF b = None THEN DefaultMinorRadius ELSE b[1]

\* float division: Python raises ZeroDivisionError on a zero divisor
Divide(g, x, y) ==
  IF y[1] = 0
  THEN [g EXCEPT !.pc = "raised", !.exc = "ZeroDivisionError"]
  ELSE [g EXCEPT !.pc = "return", !.ret = Some(RatDiv(x, y))]

\* line 147: average_plasma_current / (np.pi * minor_radius * minor_radius)
\* The divisor evaluates the global name np before anything is divided.
GreenwaldDensityLimit ==
  /\ gw.pc = "call"
  /\ gw.fn = "greenwald_density_limit"
  /\ LET minor_radius == BindMinorRadius(gw.b)
     IN  gw' =
           IF ~NameBound("np")
           THEN [gw EXCEPT !.pc = "raised", !.exc = "NameError"]
           ELSE Divide(gw, gw.a,
                       RatMul(RatMul(Pi, minor_radius), minor_radius))
  /\ UNCHANGED <<avg, store, call, prev, nconn, ncalls>>

\* line 162, the quotient: average_line_averaged_density / greenwald_density
FractionClamped(d, g) ==
  LET q == RatDiv(d, g)
  IN  IF RatLess(<<1, 1>>, q) THEN <<1, 1>>
      ELSE IF RatLess(q, <<0, 1>>) THEN <<0, 1>> ELSE q
Fraction(d, g) == RatDiv(d, g)

\* line 162: return average_line_averaged_density / greenwald_density
GreenwaldFraction ==
  /\ gw.pc = "call"
  /\ gw.fn = "greenwald_fraction"
  /\ gw' = IF gw.b[1][1] = 0
           THEN [gw EXCEPT !.pc = "raised", !.exc = "ZeroDivisionError"]
           ELSE [gw EXCEPT !.pc = "return",
                           !.ret = Some(Fraction(gw.a, gw.b[1]))]
  /\ UNCHANGED <<avg, store, call, prev, nconn, ncalls>>

(***************************************************************************)
(* The remote MDSplus server, as the accessors see it.                     *)
(*                                                                         *)
(* A signal is a sequence of samples [t, v]: a node's values and its time  *)
(* axis are two views of the same samples.  store[<<shot, node>>] is the   *)
(* signal of a node in the tree of a shot, or None where the node was      *)
(* never written for that shot.                                            *)
(***************************************************************************)
Shots == {1, 2}
Nodes == {"NL_04", "NEBAR_EFIT", "IP", "BTOR"}

TreeOf(node) ==
  IF node \in {"NL_04", "NEBAR_EFIT"} THEN "electrons" ELSE "magnetics"

NodeIdx(node) ==
  CASE node = "NL_04" -> 0 [] node = "NEBAR_EFIT" -> 1
    [] node = "IP" -> 2 [] node = "BTOR" -> 3

\* the plasma current is stored in amperes
StoredUnit(node) == IF node = "IP" THEN 1000 ELSE 1

\* a stored signal of len samples; nodes differ in time base and in values
Signal(node, shot, len) ==
  [ i \in 1 .. len |->
      [ t |-> i - 1 + NodeIdx(node),
        v |-> StoredUnit(node) * (((i * (NodeIdx(node) + 1) + shot) % 5) - 2) ] ]

\* server contents: in content k the nodes hold signals of different lengths
\* (0 .. MaxLen samples); the line-averaged density exists for shot 1 only
Content(k) ==
  [ sn \in Shots \X Nodes |->
      IF sn[2] = "NEBAR_EFIT" /\ sn[1] # 1
      THEN None
      ELSE Some(Signal(sn[2], sn[1], (k + NodeIdx(sn[2])) % (MaxLen + 1))) ]

Contents == { Content(k) : k \in 1 .. MaxLen }

\* the signal paths of the server, and what a "dim_of(...)" request looks like
PathNL04 == "\\ELECTRONS::TOP.TCI.RESULTS.NL_04"
PathNEBAR == "\\ELECTRONS::TOP.TCI.RESULTS.INVERSION.NEBAR_EFIT"
PathIP == "\\MAGNETICS::IP"
PathBTOR == "\\MAGNETICS::BTOR"
DimOf(expr) == "dim_of(" \o expr \o ")"

\* the expressions the server is asked to evaluate: the node read, the
\* divisor applied to its values on the server, and the axis asked for
Parse(expr) ==
  CASE expr = PathNL04 -> [node |-> "NL_04", div |-> 1, dim |-> FALSE]
    [] expr = PathNEBAR -> [node |-> "NEBAR_EFIT", div |-> 1, dim |-> FALSE]
    [] expr = PathIP -> [node |-> "IP", div |-> 1, dim |-> FALSE]
    [] expr = PathIP \o "/1000" -> [node |-> "IP", div |-> 1000, dim |-> FALSE]
    [] expr = PathBTOR -> [node |-> "BTOR", div |-> 1, dim |-> FALSE]
    [] expr = DimOf(PathNL04) -> [node |-> "NL_04", div |-> 1, dim |-> TRUE]
    [] expr = DimOf(PathNEBAR) -> [node |-> "NEBAR_EFIT", div |-> 1, dim |-> TRUE]
    [] expr = DimOf(PathIP) -> [node |-> "IP", div |-> 1, dim |-> TRUE]
    [] expr = DimOf(PathIP \o "/1000") -> [node |-> "IP", div |-> 1000, dim |-> TRUE]
    [] expr = DimOf(PathBTOR) -> [node |-> "BTOR", div |-> 1, dim |-> TRUE]
    [] OTHER -> [node |-> "", div |-> 1, dim |-> FALSE]

\* a tree can be opened for a shot when the shot has data in it
TreeExists(st, tree, shot) ==
  /\ shot \in Shots
  /\ \E n \in Nodes : TreeOf(n) = tree /\ st[<<shot, n>>] # None

\* the server's answer to get(expr) on a connection with tree open for shot
Evaluate(st, tree, shot, expr) ==
  LET p == Parse(expr)
  IN  IF \/ p.node = ""
         \/ TreeOf(p.node) # tree
         \/ st[<<shot, p.node>>] = None
      THEN [ok |-> FALSE, value |-> <<>>]
      ELSE LET sig == st[<<shot, p.node>>][1]
           IN  [ok |-> TRUE,
                value |-> [ i \in 1 .. Len(sig) |->
                              IF p.dim THEN sig[i].t ELSE sig[i].v \div p.div ]]

(***************************************************************************)
(* The four accessors                                                      *)
(***************************************************************************)
\* lines 18-27: tree opened, signal path, sign applied to the fetched values
get_line_integrated_density ==
  [tree |-> "electrons", dataname |-> PathNL04, negate |-> FALSE]

\* lines 44-53
get_line_averaged_density ==
  [tree |-> "electrons", dataname |-> PathNEBAR, negate |-> FALSE]

\* lines 70-77
get_plasma_current ==
  [tree |-> "magnetics", dataname |-> PathIP \o "/1000", negate |-> FALSE]

\* lines 92-101
get_toroidal_magnetic_field_unsigned ==
  [tree |-> "magnetics", dataname |-> PathBTOR, negate |-> FALSE]
get_toroidal_magnetic_field ==
  [tree |-> "magnetics", dataname |-> PathBTOR, negate |-> TRUE]

AccessorNames ==
  { "get_line_integrated_density", "get_line_averaged_density",
    "get_plasma_current", "get_toroidal_magnetic_field" }

Accessor(fn) ==
  CASE fn = "get_line_integrated_density" -> get_line_integrated_density
    [] fn = "get_line_averaged_density" -> get_line_averaged_density
    [] fn = "get_plasma_current" -> get_plasma_current
    [] fn = "get_toroidal_magnetic_field" -> get_toroidal_magnetic_field

\* shot numbers a caller passes: the shots of the server and one it lacks
ShotNumbers == Shots \cup {3}

\* numpy: -a
Negate(a) == [i \in 1 .. Len(a) |-> -a[i]]

\* lines 23, 97: the local value of the data array, given the server's answer
FetchedData(acc, answer) == IF acc.negate THEN Negate(answer) ELSE answer

\* lines 24, 50, 75, 98: the expression asked for the time axis
TimeExprOfOtherNode(dataname) == DimOf(PathBTOR)
TimeExpr(dataname) == DimOf(dataname)

\* lines 27, 53, 77, 101: the returned tuple
ReturnPair(time, data) == <<time, data>>

\* mds.Connection("alcdata") constructs a new connection object: the n
\* connections opened so far are followed by connection n + 1
ReusedConnection(n) == IF n > 0 THEN n ELSE 1
NewConnection(n) == n + 1

CallIdle ==
  [ pc |-> "idle", fn |-> "", shot_number |-> 0, c |-> 0, tree |-> "",
    data |-> None, time |-> None, ret |-> None, exc |-> NoException,
    steps |-> <<>> ]

\* one remote step, as it went: the operation, its argument, the connection
\* it used, the error it raised (NoException when it succeeded) and the array
\* the server answered with (<<>> when it answered with none)
Step(op, arg, conn, err, reply) ==
  [op |-> op, arg |-> arg, conn |-> conn, err |-> err, reply |-> reply]

NextPc(pc) ==
  CASE pc = "line18" -> "line19" [] pc = "line19" -> "line23"
    [] pc = "line23" -> "line24" [] pc = "line24" -> "line27"
    [] OTHER -> pc

\* No accessor has a try/except: an error raised by a remote step leaves the
\* function at once, with that error.
FailedButContinues(c, step) ==
  [c EXCEPT !.pc = NextPc(c.pc), !.steps = Append(@, step)]
Failed(c, step) ==
  [c EXCEPT !.pc = "raised", !.exc = step.err, !.steps = Append(@, step)]

\* the error of a remote step: the transport may fail (net = FALSE), or the
\* server may refuse the request
StepError(net, served, refusal) ==
  IF ~net THEN "MdsIpException" ELSE IF ~served THEN refusal ELSE NoException

\* a caller calls accessor fn for a shot; the previous call, if any, is over
AccessorCall ==
  /\ avg.pc = "idle" /\ gw.pc = "idle"
  /\ call.pc \in {"idle", "returned", "raised"}
  /\ ncalls < MaxCalls
  /\ \E fn \in AccessorNames, shot \in ShotNumbers :
       call' = [CallIdle EXCEPT !.pc = "line18", !.fn = fn,
                                !.shot_number = shot]
  /\ prev' = call
  /\ ncalls' = ncalls + 1
  /\ UNCHANGED <<avg, gw, store, nconn>>

\* lines 18, 44, 70, 92: c = mds.Connection("alcdata")
Connect ==
  /\ call.pc = "line18"
  /\ \E net \in BOOLEAN :
       LET err == StepError(net, TRUE, NoException)
           id == NewConnection(nconn)
       IN  IF err # NoException
           THEN /\ call' = Failed(call, Step("connect", "alcdata", 0, err, <<>>))
                /\ UNCHANGED nconn
           ELSE /\ call' = [call EXCEPT !.pc = "line19", !.c = id,
                              !.steps = Append(@, Step("connect", "alcdata", id, err, <<>>))]
                /\ nconn' = id
  /\ UNCHANGED <<avg, gw, store, prev, ncalls>>

\* lines 19, 45, 71, 93: c.openTree(tree, shot_number)
OpenTree ==
  /\ call.pc = "line19"
  /\ \E net \in BOOLEAN :
       LET tree == Accessor(call.fn).tree
           err == StepError(net, TreeExists(store, tree, call.shot_number),
                            "TreeFOPENR")
           step == Step("openTree", tree, call.c, err, <<>>)
       IN  call' = IF err # NoException
                   THEN Failed(call, step)
                   ELSE [call EXCEPT !.pc = "line23", !.tree = tree,
                                     !.steps = Append(@, step)]
  /\ UNCHANGED <<avg, gw, store, prev, nconn, ncalls>>

\* lines 23, 49, 74, 97: data = c.get(dataname).data(), negated at line 97
GetData ==
  /\ call.pc = "line23"
  /\ \E net \in BOOLEAN :
       LET acc == Accessor(call.fn)
           answer == Evaluate(store, call.tree, call.shot_number, acc.dataname)
           err == StepError(net, answer.ok, "TreeNNF")
           step == Step("get", acc.dataname, call.c, err,
                        IF err = NoException THEN answer.value ELSE <<>>)
       IN  call' = IF err # NoException
                   THEN Failed(call, step)
                   ELSE [call EXCEPT !.pc = "line24",
                                     !.data = Some(FetchedData(acc, answer.value)),
                                     !.steps = Append(@, step)]
  /\ UNCHANGED <<avg, gw, store, prev, nconn, ncalls>>

\* lines 24, 50, 75, 98: time = c.get(f"dim_of({dataname})").data()
GetTime ==
  /\ call.pc = "line24"
  /\ \E net \in BOOLEAN :
       LET expr == TimeExpr(Accessor(call.fn).dataname)
           answer == Evaluate(store, call.tree, call.shot_number, expr)
           err == StepError(net, answer.ok, "TreeNNF")
           step == Step("get", expr, call.c, err,
                        IF err = NoException THEN answer.value ELSE <<>>)
       IN  call' = IF err # NoException
                   THEN Failed(call, step)
                   ELSE [call EXCEPT !.pc = "line27",
                                     !.time = Some(answer.value),
                                     !.steps = Append(@, step)]
  /\ UNCHANGED <<avg, gw, store, prev, nconn, ncalls>>

\* lines 27, 53, 77, 101: return time, data
Return ==
  /\ call.pc = "line27"
  /\ call' = [call EXCEPT !.pc = "returned",
                          !.ret = Some(ReturnPair(call.time[1], call.data[1]))]
  /\ UNCHANGED <<avg, gw, store, prev, nconn, ncalls>>

(***************************************************************************)
(* The specification                                                       *)
(***************************************************************************)
AccessorsIdle ==
  /\ store = Content(1)
  /\ call = CallIdle
  /\ prev = CallIdle
  /\ nconn = 0
  /\ ncalls = 0

\* a caller about to run average_plasma_parameter on arrays of equal length
InitAverage ==
  /\ \E n \in 0 .. MaxLen :
       \E d \in [1 .. n -> DataVals], t \in [1 .. n -> TimeVals] :
         \E s \in Bounds, e \in Bounds : avg = AvgCall(d, t, s, e)
  /\ gw = GwIdle
  /\ AccessorsIdle

\* a caller about to run one of the Greenwald formulas
InitGreenwald ==
  /\ avg = AvgIdle
  /\ \/ \E a \in Scalars, b \in {None} \cup {Some(r) : r \in Scalars} :
          gw = GwCall("greenwald_density_limit", a, b)
     \/ \E a \in Scalars, b \in Scalars :
          gw = GwCall("greenwald_fraction", a, Some(b))
  /\ AccessorsIdle

\* a caller about to fetch signals from a server holding some content
InitAccessor ==
  /\ avg = AvgIdle
  /\ gw = GwIdle
  /\ store \in Contents
  /\ call = CallIdle
  /\ prev = CallIdle
  /\ nconn = 0
  /\ ncalls = 0

Init == InitAverage \/ InitGreenwald \/ InitAccessor

Next ==
  \/ AvgTestDefaults
  \/ AvgDefaultWindow
  \/ AvgWindow
  \/ AvgSelect
  \/ AvgMean
  \/ GreenwaldDensityLimit
  \/ GreenwaldFraction
  \/ AccessorCall
  \/ Connect
  \/ OpenTree
  \/ GetData
  \/ GetTime
  \/ Return

Spec == Init /\ [][Next]_vars

(***************************************************************************)
(* Properties                                                              *)
(***************************************************************************)
AvgOver == avg.pc \in {"return", "raised"}

\* the positions of the samples whose time is strictly between s and e
StrictlyInside(time, s, e) == { i \in 1 .. Len(time) : s < time[i] /\ time[i] < e }

RECURSIVE SumOver(_, _)
SumOver(data, S) ==
  IF S = {} THEN 0
  ELSE LET i == CHOOSE j \in S : TRUE IN data[i] + SumOver(data, S \ {i})

\* r is the arithmetic mean of the data at the positions S
IsMeanOf(r, data, S) ==
  /\ S # {}
  /\ r[2] > 0
  /\ r[1] * Cardinality(S) = r[2] * SumOver(data, S)

\* C1: with both bounds given and at least one sample strictly inside them,
\* average_plasma_parameter returns the arithmetic mean of exactly the data
\* whose time is strictly greater than time_start and strictly less than
\* time_end.
C1_WindowMean ==
  LET s == avg.args.time_start
      e == avg.args.time_end
  IN  (AvgOver /\ s # None /\ e # None)
        => LET S == StrictlyInside(avg.variable_time, s[1], e[1])
           IN  S # {} => /\ avg.pc = "return"
                         /\ IsMeanOf(avg.ret[1], avg.variable_data, S)

\* data=[2,-1,2], time=[0,1,2], start=0, end=2: only the sample at time 1 is
\* selected, the samples at the two bounds are not, and the result is -1
C1_Witness ==
  /\ avg.pc = "return"
  /\ avg.variable_time = <<0, 1, 2>>
  /\ avg.variable_data = <<2, -1, 2>>
  /\ avg.args = [time_start |-> Some(0), time_end |-> Some(2)]
  /\ avg.ret = Some(<<-1, 1>>)

\* C2: called with both bounds omitted, on a time array with a sample
\* strictly between its minimum and its maximum, average_plasma_parameter
\* returns the mean of the samples strictly inside (min(time), max(time)).
C2_DefaultWindowMean ==
  (AvgOver /\ avg.args.time_start = None /\ avg.args.time_end = None
     /\ avg.variable_time # <<>>)
    => LET S == StrictlyInside(avg.variable_time, SeqMin(avg.variable_time),
                               SeqMax(avg.variable_time))
       IN  S # {} => /\ avg.pc = "return"
                     /\ IsMeanOf(avg.ret[1], avg.variable_data, S)

ExactlyOneOmitted(a) == (a.time_start = None) # (a.time_end = None)

C4_EmptySelectionNaN ==
  LET s == avg.args.time_start
      e == avg.args.time_end
      t == avg.variable_time
      S == IF s = None
           THEN StrictlyInside(t, SeqMin(t), SeqMax(t))
           ELSE StrictlyInside(t, s[1], e[1])
  IN  (AvgOver /\ (s = None) = (e = None) /\ (s = None => t # <<>>) /\ S = {})
        => avg.pc = "return" /\ avg.ret = Some(NaN)

\* the node each accessor is documented to read, and the divisor its path
\* asks the server to apply
SignalNode(fn) ==
  CASE fn = "get_line_integrated_density" -> "NL_04"
    [] fn = "get_line_averaged_density" -> "NEBAR_EFIT"
    [] fn = "get_plasma_current" -> "IP"
    [] fn = "get_toroidal_magnetic_field" -> "BTOR"

SourceDivisor(fn) == IF fn = "get_plasma_current" THEN 1000 ELSE 1

\* C5: an accessor call that returns, returns (time, data) in that order; the
\* two arrays have the length of the stored signal, time[i] is the time of
\* its i-th sample and data[i] its value (up to the accessor's sign and the
\* source's scale).
C5_PairAligned ==
  call.pc = "returned"
    => LET time == call.ret[1][1]
           data == call.ret[1][2]
           sig == store[<<call.shot_number, SignalNode(call.fn)>>]
       IN  /\ sig # None
           /\ Len(time) = Len(data)
           /\ Len(time) = Len(sig[1])
           /\ \A i \in 1 .. Len(time) :
                /\ time[i] = sig[1][i].t
                /\ Abs(data[i]) * SourceDivisor(call.fn) = Abs(sig[1][i].v)

\* the plasma current of a shot came back with at least two samples
C5_Witness ==
  /\ call.pc = "returned"
  /\ call.fn = "get_plasma_current"
  /\ Len(call.ret[1][1]) >= 2
  /\ Len(call.ret[1][2]) >= 2

\* C6: get_toroidal_magnetic_field returns the negation, element by element,
\* of the values the server answered for the path \MAGNETICS::BTOR, and the
\* time axis exactly as answered; the other accessors return both answers
\* unchanged.
C6_SignFlipOnlyOnToroidalData ==
  call.pc = "returned"
    => LET time == call.ret[1][1]
           data == call.ret[1][2]
           values == call.steps[3].reply
           axis == call.steps[4].reply
       IN  /\ time = axis
           /\ Len(data) = Len(values)
           /\ IF call.fn = "get_toroidal_magnetic_field"
              THEN /\ call.steps[3].arg = PathBTOR
                   /\ \A i \in 1 .. Len(data) : data[i] = -values[i]
              ELSE data = values

\* a toroidal field came back whose values and times are not all zero, so
\* that a sign flip is visible on either
C6_Witness ==
  /\ call.pc = "returned"
  /\ call.fn = "get_toroidal_magnetic_field"
  /\ \E i \in 1 .. Len(call.ret[1][2]) : call.ret[1][2][i] # 0
  /\ \E i \in 1 .. Len(call.ret[1][1]) : call.ret[1][1][i] # 0

GwOver == gw.pc \in {"return", "raised"}

\* C7: for a non-zero minor radius r (0.22 when omitted),
\* greenwald_density_limit(I, r) returns I / (pi * r * r).
C7_DensityLimitFormula ==
  (GwOver /\ gw.fn = "greenwald_density_limit")
    => LET r == IF gw.b = None THEN <<11, 50>> ELSE gw.b[1]
       IN  r[1] # 0
             => /\ gw.pc = "return"
                /\ RatMul(gw.ret[1], RatMul(RatMul(Pi, r), r)) = gw.a

\* C8: for a non-zero limit g, greenwald_fraction(d, g) returns the ratio
\* d / g, whatever its size or sign: the result times g is d.
C8_FractionIsRatio ==
  (GwOver /\ gw.fn = "greenwald_fraction" /\ gw.b[1][1] # 0)
    => /\ gw.pc = "return"
       /\ RatMul(gw.ret[1], gw.b[1]) = gw.a

\* greenwald_fraction(2.0, 1.0) returned 2.0
C8_Witness ==
  /\ gw.pc = "return"
  /\ gw.fn = "greenwald_fraction"
  /\ gw.a = <<2, 1>>
  /\ gw.b = Some(<<1, 1>>)
  /\ gw.ret = Some(<<2, 1>>)

\* the remote steps of an accessor, in the order of its code
RemoteOps == <<"connect", "openTree", "get", "get">>

\* C9: the remote steps of a call are a prefix of connect, openTree, get,
\* get, each made once; only the last one made can have failed, and when it
\* has, the call is over with that step's error and no returned pair.
C9_FailurePropagates ==
  LET n == Len(call.steps)
  IN  /\ n <= Len(RemoteOps)
      /\ \A i \in 1 .. n : call.steps[i].op = RemoteOps[i]
      /\ \A i \in 1 .. n - 1 : call.steps[i].err = NoException
      /\ (n > 0 /\ call.steps[n].err # NoException)
           => /\ call.pc = "raised"
              /\ call.exc = call.steps[n].err
              /\ call.ret = None

\* the line-averaged density was never written for the shot: the first get
\* failed and the call raised the server's error
C9_Witness ==
  /\ call.pc = "raised"
  /\ call.fn = "get_line_averaged_density"
  /\ Len(call.steps) = 3
  /\ call.exc = "TreeNNF"

\* C10, as stated: a call that returns has made exactly one round trip to
\* the server.
C10_OneRoundTrip ==
  call.pc = "returned"
    => Len(call.steps) = 1

\* C10, amended: a call that returns has opened one connection of its own,
\* different from the previous call's, and made its three requests on it
\* (four remote steps); if the previous call was the same accessor for the
\* same shot and returned, this call has repeated its steps rather than
\* reused its connection or its result.
C10_FreshConnectionEachCall ==
  call.pc = "returned"
    => /\ Len(call.steps) = Len(RemoteOps)
       /\ \A i \in 1 .. Len(call.steps) :
            /\ call.steps[i].op = RemoteOps[i]
            /\ call.steps[i].conn = call.c
       /\ call.c > 0
       /\ call.c # prev.c
       /\ (prev.pc = "returned" /\ prev.fn = call.fn
             /\ prev.shot_number = call.shot_number)
            => /\ \A i \in 1 .. Len(call.steps) :
                    /\ call.steps[i].arg = prev.steps[i].arg
                    /\ call.steps[i].reply = prev.steps[i].reply
               /\ call.ret = prev.ret

\* the same accessor returned twice in a row for the same shot
C10_Witness ==
  /\ call.pc = "returned"
  /\ prev.pc = "returned"
  /\ prev.fn = call.fn
  /\ prev.shot_number = call.shot_number
  /\ call.c = 2
  /\ prev.c = 1

====
